---- MODULE Spec2Model ----
(***************************************************************************)
(* Model of kenkenKing/algo_trading:                                       *)
(*   src/Market Timing with Aggregate Accruals/main.py                     *)
(*   (class MarketTimingAggregateAccruals)                                 *)
(*   src/Net Current Asset Value Effect/main.py                            *)
(*   (class NetCurrentAssetValueEffect; its state is prefixed ncav_ where  *)
(*   the two classes use the same name)                                    *)
(*                                                                         *)
(* Real numbers (Python float / numpy float64) are modelled as exact       *)
(* fractions <<n, d>> in lowest terms with d > 0.  The non-finite float64  *)
(* values numpy produces on a division by zero are kept: <<1, 0>> is +inf, *)
(* <<-1, 0>> is -inf and <<0, 0>> is NaN.                                  *)
(***************************************************************************)
EXTENDS Integers, Sequences, FiniteSets, TLC

VARIABLES
    month,                \* self.Time.month at the last monthly tick
    market_price,         \* self.Securities[self.market].Price
    price_moves,          \* number of changes of market_price so far
    market_monthly_data,  \* deque(maxlen = 12) of monthly prices
    market_yearly_data,   \* deque(maxlen = year_period + 1) of <<price, variance>>
    aggregate_accruals,   \* deque(maxlen = year_period + 1) of aggregate accruals
    accrual_data,         \* dict Symbol -> AccrualsData
    selection_flag,       \* self.selection_flag
    orders,               \* the SetHoldings weights the last handler call issued, <<>> if none
    runtime_error,        \* an exception left a handler: the algorithm has stopped
    snap_age,             \* history: annual cycles with an aggregation pass that
                          \* ended since accrual_data[s] was stored
    purged,               \* history: symbols whose record a removal notification
                          \* deleted and that have not been stored since
    agg_passes,           \* history: aggregation passes since the flag was last set
    rebalances,           \* history: OnData bodies run since the flag was last set
    ncav_month,           \* NetCurrentAssetValueEffect: self.Time.month at the last tick
    ncav_selection_flag,  \* NetCurrentAssetValueEffect: self.selection_flag
    long_symbols,         \* NetCurrentAssetValueEffect: self.long_symbols
    targets,              \* the portfolio the last handler call passed to SetHoldings:
                          \* <<portfolio>>, or <<>> if it made no call
    ncav_error,           \* an exception left a handler of NetCurrentAssetValueEffect
    july_ticked           \* history: a tick of the rebalance month has run since
                          \* start-up or since the last SetHoldings call

\* the state of NetCurrentAssetValueEffect
ncav == <<ncav_month, ncav_selection_flag, long_symbols, targets, ncav_error,
          july_ticked>>

\* the state of MarketTimingAggregateAccruals
accruals_timing ==
    <<month, market_price, price_moves, market_monthly_data,
      market_yearly_data, aggregate_accruals, accrual_data, selection_flag,
      orders, runtime_error, snap_age, purged, agg_passes, rebalances>>

vars == <<accruals_timing, ncav>>

\* everything but the orders of the last call
state == <<month, market_price, price_moves, market_monthly_data,
           market_yearly_data, aggregate_accruals, accrual_data, selection_flag,
           runtime_error, snap_age, purged, agg_passes, rebalances>>

----------------------------------------------------------------------------
(* Program constants and bounds *)

\* self.year_period (10 in the source), scaled down
year_period == 3
\* self.coarse_count (500 in the source), scaled down
coarse_count == 2
\* how often the market price may change during a run
MaxPriceMoves == 1

monthly_maxlen == 12
rebalance_month == 4
gamma == 5
leverage_cap == 3
StartMonth == 8

yearly_maxlen == year_period + 1

\* NetCurrentAssetValueEffect: self.fundamental_count (3000 in the source),
\* scaled down
fundamental_count == 2
ncav_rebalance_month == 7
fin_sector_code == 103
\* SetStartDate(2000, 1, 1): the first monthly tick is that of January
NCAVStartMonth == 12

----------------------------------------------------------------------------
(* Exact arithmetic with float64's non-finite values *)

AbsInt(a) == IF a < 0 THEN -a ELSE a
SgnInt(a) == IF a < 0 THEN -1 ELSE IF a > 0 THEN 1 ELSE 0

RECURSIVE Gcd(_, _)
Gcd(a, b) == IF b = 0 THEN a ELSE Gcd(b, a % b)

Frac(n, d) ==
    IF d = 0 THEN <<SgnInt(n), 0>>
    ELSE LET g == Gcd(AbsInt(n), AbsInt(d))
             s == SgnInt(d)
         IN  <<(s * n) \div g, (s * d) \div g>>

NaN == <<0, 0>>
FInt(a) == <<a, 1>>
IsNaN(x) == x = NaN
IsInf(x) == x[2] = 0 /\ x[1] # 0

FNeg(x) == <<-x[1], x[2]>>
FAbs(x) == <<AbsInt(x[1]), x[2]>>

FAdd(x, y) ==
    IF IsNaN(x) \/ IsNaN(y) THEN NaN
    ELSE IF IsInf(x) /\ IsInf(y) THEN (IF x = y THEN x ELSE NaN)
    ELSE IF IsInf(x) THEN x
    ELSE IF IsInf(y) THEN y
    ELSE Frac(x[1] * y[2] + y[1] * x[2], x[2] * y[2])

FSub(x, y) == FAdd(x, FNeg(y))

FMul(x, y) ==
    IF IsNaN(x) \/ IsNaN(y) THEN NaN
    ELSE IF IsInf(x) \/ IsInf(y) THEN <<SgnInt(x[1]) * SgnInt(y[1]), 0>>
    ELSE Frac(x[1] * y[1], x[2] * y[2])

\* numpy float64 division: x/0 is +-inf, 0/0 is NaN (a warning, no exception)
FDiv(x, y) ==
    IF IsNaN(x) \/ IsNaN(y) THEN NaN
    ELSE IF IsInf(x) THEN (IF IsInf(y) THEN NaN
                           ELSE <<x[1] * (IF y[1] < 0 THEN -1 ELSE 1), 0>>)
    ELSE IF IsInf(y) THEN FInt(0)
    ELSE Frac(x[1] * y[2], x[2] * y[1])

\* x < y; every comparison with NaN is false
FLess(x, y) ==
    IF IsNaN(x) \/ IsNaN(y) \/ x = y THEN FALSE
    ELSE IF IsInf(x) THEN x[1] < 0
    ELSE IF IsInf(y) THEN y[1] > 0
    ELSE x[1] * y[2] < y[1] * x[2]

FLeq(x, y) == ~IsNaN(x) /\ ~IsNaN(y) /\ (x = y \/ FLess(x, y))

\* Python's builtin min(a, b) and max(a, b): the first argument wins a tie
\* and every failed comparison (NaN)
PyMin(a, b) == IF FLess(b, a) THEN b ELSE a
PyMax(a, b) == IF FLess(a, b) THEN b ELSE a

RECURSIVE FSum(_)
FSum(s) == IF s = <<>> THEN FInt(0) ELSE FAdd(Head(s), FSum(Tail(s)))

FMean(s) == FDiv(FSum(s), FInt(Len(s)))

\* mutant: an append to a full deque evicts nothing
DequeAppendUnbounded(q, x, n) == Append(q, x)

\* collections.deque(maxlen = n).append(x)
DequeAppend(q, x, n) ==
    LET r == Append(q, x)
    IN  IF Len(r) > n THEN Tail(r) ELSE r

\* s[-k:] (Python: s[-0:] is the whole list)
LastK(s, k) == IF k = 0 \/ Len(s) <= k THEN s ELSE SubSeq(s, Len(s) - k + 1, Len(s))
\* s[:k]
FirstK(s, k) == IF Len(s) <= k THEN s ELSE SubSeq(s, 1, k)

----------------------------------------------------------------------------
(* Inputs the runtime delivers *)

Market == "SPY"
Tbills == "BIL"
Symbols == {"A", "B"}
Prices == {1, 2}
\* SpecScenarioA: a market that doubles from year to year
ScenarioPrices == { 2 ^ k : k \in 0..yearly_maxlen }

\* class AccrualsData
AccrualsData(ca, cash, cl, debt, tax, dep, ta) ==
    [CurrentAssets |-> ca, CashAndCashEquivalents |-> cash,
     CurrentLiabilities |-> cl, CurrentDebt |-> debt, IncomeTaxPayable |-> tax,
     DepreciationAndAmortization |-> dep, TotalAssets |-> ta]

Statement1 == AccrualsData(1, 0, 0, 0, 0, 0, 1)
Statement2 == AccrualsData(2, 0, 0, 0, 0, 1, 2)

\* a Fundamental object as FundamentalSelectionFunction reads it
Fundamental(sym, valid, dv, stmt, cap) ==
    [Symbol |-> sym, HasFundamentalData |-> TRUE, Market |-> "usa",
     HasValue |-> valid, DollarVolume |-> dv, Statement |-> stmt,
     MarketCap |-> cap]

StockA1 == Fundamental("A", TRUE, 1, Statement1, 1)
StockA2 == Fundamental("A", TRUE, 1, Statement2, 1)
\* A with one of the six required fields missing
StockA0 == Fundamental("A", FALSE, 1, Statement1, 1)
\* B is more liquid than A
StockB1 == Fundamental("B", TRUE, 2, Statement1, 2)

\* the lists handed to the universe-selection hook (one entry per symbol).
\* Spec: one stock whose statement changes from year to year, the market
\* price constant
FundamentalInputs == { <<>>, <<StockA1>>, <<StockA2>>, <<StockA0>> }
\* SpecUniverse: two stocks that enter and leave the list
UniverseInputs ==
    { <<>>, <<StockA1>>, <<StockB1>>, <<StockA1, StockB1>>,
      <<StockB1, StockA1>>, <<StockA0, StockB1>> }

\* SpecCaps: two stocks with different accruals (A: 0, B: -1 from the second
\* year on) and market capitalizations 0, 1 and 2; C is the least liquid and
\* falls to the [:coarse_count] cut
StockA1Cap2 == Fundamental("A", TRUE, 1, Statement1, 2)
StockAZeroCap == Fundamental("A", TRUE, 1, Statement1, 0)
StockB2 == Fundamental("B", TRUE, 2, Statement2, 1)
StockBZeroCap == Fundamental("B", TRUE, 2, Statement2, 0)
StockC1 == Fundamental("C", TRUE, 0, Statement1, 1)

CapInputs ==
    { <<StockA1Cap2, StockB2>>, <<StockAZeroCap, StockBZeroCap>>,
      <<StockC1, StockA1, StockB2>> }

\* SpecForecast: one stock whose statement changes, in a market whose price
\* moves
ForecastInputs == { <<StockA1>>, <<StockA2>> }

\* SpecAccruals: every statement whose seven fields are 0 or 1
FieldValues == {0, 1}
StatementSpace ==
    [CurrentAssets : FieldValues, CashAndCashEquivalents : FieldValues,
     CurrentLiabilities : FieldValues, CurrentDebt : FieldValues,
     IncomeTaxPayable : FieldValues, DepreciationAndAmortization : FieldValues,
     TotalAssets : FieldValues]

\* the instruments with a bar in a data slice
DataSlices == SUBSET {Market, Tbills}

----------------------------------------------------------------------------
(* Pure functions of the program *)

\* simple returns (values[1:] - values[:-1]) / values[:-1] of a float sequence
SimpleReturns(values) ==
    [i \in 1..(Len(values) - 1) |->
        FDiv(FSub(values[i + 1], values[i]), values[i])]

\* Volatility(values) ** 2: np.std is the population standard deviation
VolatilitySquared(values) ==
    LET returns == SimpleReturns([i \in 1..Len(values) |-> FInt(values[i])])
        mean == FMean(returns)
    IN  FMean([i \in 1..Len(returns) |->
                FMul(FSub(returns[i], mean), FSub(returns[i], mean))])

\* (Volatility(window) * sqrt(len(window))) ** 2
YearlyVariance(window) == FMul(VolatilitySquared(window), FInt(Len(window)))

\* mutant: the change in income taxes payable is left out
CalculateAccrualsNoTax(current_accrual_data, prev_accrual_data) ==
    LET delta_assets == current_accrual_data.CurrentAssets
                            - prev_accrual_data.CurrentAssets
        delta_cash == current_accrual_data.CashAndCashEquivalents
                            - prev_accrual_data.CashAndCashEquivalents
        delta_liabilities == current_accrual_data.CurrentLiabilities
                            - prev_accrual_data.CurrentLiabilities
        delta_debt == current_accrual_data.CurrentDebt
                            - prev_accrual_data.CurrentDebt
        dep == current_accrual_data.DepreciationAndAmortization
    IN  ((delta_assets - delta_cash) - (delta_liabilities - delta_debt) - dep)

CalculateAccruals(current_accrual_data, prev_accrual_data) ==
    LET delta_assets == current_accrual_data.CurrentAssets
                            - prev_accrual_data.CurrentAssets
        delta_cash == current_accrual_data.CashAndCashEquivalents
                            - prev_accrual_data.CashAndCashEquivalents
        delta_liabilities == current_accrual_data.CurrentLiabilities
                            - prev_accrual_data.CurrentLiabilities
        delta_debt == current_accrual_data.CurrentDebt
                            - prev_accrual_data.CurrentDebt
        delta_tax == current_accrual_data.IncomeTaxPayable
                            - prev_accrual_data.IncomeTaxPayable
        dep == current_accrual_data.DepreciationAndAmortization
    IN  ((delta_assets - delta_cash)
            - (delta_liabilities - delta_debt - delta_tax) - dep)

\* the filter of the list comprehension
HasAllFields(x) == x.HasFundamentalData /\ x.Market = "usa" /\ x.HasValue

RECURSIVE FilterFundamental(_)
FilterFundamental(fundamental) ==
    IF fundamental = <<>> THEN <<>>
    ELSE IF HasAllFields(Head(fundamental))
         THEN <<Head(fundamental)>> \o FilterFundamental(Tail(fundamental))
         ELSE FilterFundamental(Tail(fundamental))

\* sorted(..., key = DollarVolume, reverse = True): stable, ties keep their order
RECURSIVE InsertByDollarVolume(_, _)
InsertByDollarVolume(x, sorted) ==
    IF sorted = <<>> THEN <<x>>
    ELSE IF Head(sorted).DollarVolume >= x.DollarVolume
         THEN <<Head(sorted)>> \o InsertByDollarVolume(x, Tail(sorted))
         ELSE <<x>> \o sorted

RECURSIVE SortByDollarVolume(_)
SortByDollarVolume(list) ==
    IF list = <<>> THEN <<>>
    ELSE LET n == Len(list)
         IN  InsertByDollarVolume(list[n], SortByDollarVolume(SubSeq(list, 1, n - 1)))

Selected(fundamental) ==
    FirstK(SortByDollarVolume(FilterFundamental(fundamental)), coarse_count)

\* the loop over selected: <<accrual_data, accruals_market_cap>> after it.
\* accruals_market_cap is kept in insertion order, entries <<symbol, accruals, cap>>
RECURSIVE AccrualLoop(_, _, _)
AccrualLoop(selected, data, accruals_market_cap) ==
    IF selected = <<>> THEN <<data, accruals_market_cap>>
    ELSE LET stock == Head(selected)
             symbol == stock.Symbol
             current_accruals_data == stock.Statement
             stored == [s \in (DOMAIN data) \cup {symbol} |->
                          IF s = symbol THEN current_accruals_data ELSE data[s]]
         IN  IF symbol \notin DOMAIN data
             THEN AccrualLoop(Tail(selected), stored, accruals_market_cap)
             ELSE AccrualLoop(Tail(selected), stored,
                     Append(accruals_market_cap,
                            <<symbol,
                              CalculateAccruals(current_accruals_data, data[symbol]),
                              stock.MarketCap>>))

TotalMarketCap(accruals_market_cap) ==
    LET caps == [i \in 1..Len(accruals_market_cap) |-> FInt(accruals_market_cap[i][3])]
    IN  FSum(caps)[1]

\* mutant: the market capitalizations themselves serve as weights
ValueWeightsUnnormalised(accruals_market_cap) ==
    [i \in 1..Len(accruals_market_cap) |-> FInt(accruals_market_cap[i][3])]

\* weight = accruals_and_cap[1] / total_market_cap; total_market_cap # 0
ValueWeights(accruals_market_cap) ==
    LET total_market_cap == TotalMarketCap(accruals_market_cap)
    IN  [i \in 1..Len(accruals_market_cap) |->
            Frac(accruals_market_cap[i][3], total_market_cap)]

\* value weighted accruals; total_market_cap # 0
AggregateAccruals(accruals_market_cap) ==
    LET weight == ValueWeights(accruals_market_cap)
        weighted_accruals_data ==
            [i \in 1..Len(accruals_market_cap) |->
                FMul(FInt(accruals_market_cap[i][2]), weight[i])]
    IN  FSum(weighted_accruals_data)

\* accruals_and_cap[1] / total_market_cap raises ZeroDivisionError
DivisionByZero(accruals_market_cap) ==
    Len(accruals_market_cap) # 0 /\ TotalMarketCap(accruals_market_cap) = 0

\* mutant: a pass without accruals appends a zero
AppendAggregateZero(series, accruals_market_cap) ==
    IF Len(accruals_market_cap) = 0
    THEN DequeAppend(series, FInt(0), yearly_maxlen)
    ELSE DequeAppend(series, AggregateAccruals(accruals_market_cap), yearly_maxlen)

\* the tail of FundamentalSelectionFunction: nothing is appended when no stock
\* produced an accrual, else the value weighted aggregate
AppendAggregate(series, accruals_market_cap) ==
    IF Len(accruals_market_cap) = 0
    THEN series
    ELSE DequeAppend(series, AggregateAccruals(accruals_market_cap), yearly_maxlen)

\* scipy.stats.linregress(x, y): ValueError on empty or unequal inputs and on
\* two or more identical x values; otherwise slope = ssxym / ssxm in float64
\* (0/0 is NaN) and intercept = ymean - slope * xmean
linregress(x, y) ==
    LET n == Len(x)
        xmean == FMean(x)
        ymean == FMean(y)
        ssxm == FMean([i \in 1..n |-> FMul(FSub(x[i], xmean), FSub(x[i], xmean))])
        ssxym == FMean([i \in 1..n |-> FMul(FSub(x[i], xmean), FSub(y[i], ymean))])
        slope == FDiv(ssxym, ssxm)
    IN  IF n = 0 \/ Len(y) # n \/ (n > 1 /\ \A i \in 1..n : x[i] = x[1])
        THEN [raised |-> TRUE, slope |-> NaN, intercept |-> NaN]
        ELSE [raised |-> FALSE, slope |-> slope,
              intercept |-> FSub(ymean, FMul(slope, xmean))]

\* mutant: the regressions are fit on the most recent accruals
RegrAccrualsLatest(accruals) == LastK(accruals, year_period - 1)

RegrAccruals(accruals) == FirstK(accruals, year_period - 1)

MarketReturns(yearly) ==
    LET market_prices == [i \in 1..Len(yearly) |-> yearly[i][1]]
    IN  LastK(SimpleReturns(market_prices), year_period - 1)

YearlyVariances(yearly) ==
    LastK([i \in 1..Len(yearly) |-> yearly[i][2]], year_period - 1)

\* the two regressions and their predictions at accruals[-1]
Forecast(yearly, accruals) ==
    LET r == linregress(RegrAccruals(accruals), MarketReturns(yearly))
        v == linregress(RegrAccruals(accruals), YearlyVariances(yearly))
        latest == accruals[Len(accruals)]
    IN  IF r.raised \/ v.raised
        THEN [raised |-> TRUE, expected_return |-> NaN, expected_variance |-> NaN]
        ELSE [raised |-> FALSE,
              expected_return |-> FAdd(r.intercept, FMul(r.slope, latest)),
              expected_variance |-> FAdd(v.intercept, FMul(v.slope, latest))]

\* mutant: the guard admits histories one entry short of capacity
HistoryReadyOffByOne(yearly, accruals) ==
    Len(yearly) >= yearly_maxlen - 1 /\ Len(accruals) >= yearly_maxlen - 1

\* the guard of the forecast: both histories are at capacity
HistoryReady(yearly, accruals) ==
    Len(yearly) = yearly_maxlen /\ Len(accruals) = yearly_maxlen

MarketWeight(expected_return, expected_variance) ==
    LET market_weight == FDiv(expected_return, FMul(expected_variance, FInt(gamma)))
    IN  PyMax(PyMin(market_weight, FInt(leverage_cap)), FNeg(FInt(leverage_cap)))

TbillsWeight(market_weight) ==
    IF FLess(FAbs(market_weight), FInt(1))
    THEN FSub(FInt(1), FAbs(market_weight))
    ELSE FInt(0)

----------------------------------------------------------------------------
(* State machine *)

\* the history counters saturate: 0, 1, 2 = "two or more"
CapInc(n) == IF n < 2 THEN n + 1 ELSE n

\* mutant: the handlers never return early
FlagClearNever == FALSE

\* if not self.selection_flag: return, at the head of both handlers
FlagClear == ~selection_flag

\* mutant: the market proxy alone is enough to trade
MarketInData(data) == Market \in data

\* self.market in data and data[self.market] and self.tbills in data and
\* data[self.tbills]
BothInData(data) == Market \in data /\ Tbills \in data

\* mutant: the body of OnData leaves the flag set
FlagAfterOnDataKept == TRUE

\* self.selection_flag = False at the head of the body of OnData
FlagAfterOnData == FALSE

\* Initialize: AddEquity keeps the market proxy in self.Securities for good
SecuritiesContainsMarket == TRUE

----------------------------------------------------------------------------
(* NetCurrentAssetValueEffect: inputs and pure functions *)

\* self.ncav_threshold = 1.5
ncav_threshold == Frac(3, 2)

\* a Fundamental object as FundamentalFunction reads it
NCAVFundamental(sym, sector, shares, cap, wcps) ==
    [Symbol |-> sym, HasFundamentalData |-> TRUE, Market |-> "usa",
     CountryId |-> "USA", MorningstarSectorCode |-> sector,
     BasicAverageShares |-> shares, MarketCap |-> cap,
     WorkingCapitalPerShare |-> wcps]

\* NCAV/MV = 2 for A and B, B the larger company
DeepA == NCAVFundamental("A", 101, FInt(2), FInt(1), FInt(1))
DeepB == NCAVFundamental("B", 101, FInt(4), FInt(2), FInt(1))
\* the largest company, NCAV/MV = 1/3
ShallowC == NCAVFundamental("C", 101, FInt(1), FInt(3), FInt(1))
\* A as a company of the financial sector
FinancialA == NCAVFundamental("A", fin_sector_code, FInt(2), FInt(1), FInt(1))
\* B with no share count reported
NoSharesB == NCAVFundamental("B", 101, NaN, FInt(2), FInt(1))

NCAVInputs ==
    { <<>>, <<DeepA>>, <<DeepA, DeepB>>, <<DeepA, DeepB, ShallowC>>,
      <<FinancialA, DeepB>>, <<DeepA, NoSharesB>> }

\* the symbols with a bar in a data slice
NCAVSlices == SUBSET Symbols

\* the filter of the list comprehension
NCAVEligible(f) ==
    /\ f.HasFundamentalData
    /\ f.Market = "usa"
    /\ f.CountryId = "USA"
    /\ f.MorningstarSectorCode # fin_sector_code
    /\ ~IsNaN(f.BasicAverageShares)
    /\ f.BasicAverageShares # FInt(0)
    /\ ~IsNaN(f.MarketCap)
    /\ f.MarketCap # FInt(0)
    /\ ~IsNaN(f.WorkingCapitalPerShare)
    /\ f.WorkingCapitalPerShare # FInt(0)

RECURSIVE NCAVFilter(_)
NCAVFilter(fundamental) ==
    IF fundamental = <<>> THEN <<>>
    ELSE IF NCAVEligible(Head(fundamental))
         THEN <<Head(fundamental)>> \o NCAVFilter(Tail(fundamental))
         ELSE NCAVFilter(Tail(fundamental))

\* sorted(filtered, key = MarketCap, reverse = True): stable
RECURSIVE InsertByMarketCap(_, _)
InsertByMarketCap(x, sorted) ==
    IF sorted = <<>> THEN <<x>>
    ELSE IF FLeq(x.MarketCap, Head(sorted).MarketCap)
         THEN <<Head(sorted)>> \o InsertByMarketCap(x, Tail(sorted))
         ELSE <<x>> \o sorted

RECURSIVE SortByMarketCap(_)
SortByMarketCap(list) ==
    IF list = <<>> THEN <<>>
    ELSE LET n == Len(list)
         IN  InsertByMarketCap(list[n], SortByMarketCap(SubSeq(list, 1, n - 1)))

sorted_by_market_cap(fundamental) ==
    FirstK(SortByMarketCap(NCAVFilter(fundamental)), fundamental_count)

\* (WorkingCapitalPerShare * BasicAverageShares) / MarketCap > ncav_threshold
AboveThreshold(x) ==
    FLess(ncav_threshold,
          FDiv(FMul(x.WorkingCapitalPerShare, x.BasicAverageShares), x.MarketCap))

RECURSIVE LongSymbols(_)
LongSymbols(sorted) ==
    IF sorted = <<>> THEN <<>>
    ELSE IF AboveThreshold(Head(sorted))
         THEN <<Head(sorted).Symbol>> \o LongSymbols(Tail(sorted))
         ELSE LongSymbols(Tail(sorted))

\* the symbols of long_symbols that pass slice.ContainsKey(symbol) and
\* slice[symbol] is not None, in list order
RECURSIVE InSlice(_, _)
InSlice(symbols, slice) ==
    IF symbols = <<>> THEN <<>>
    ELSE IF Head(symbols) \in slice
         THEN <<Head(symbols)>> \o InSlice(Tail(symbols), slice)
         ELSE InSlice(Tail(symbols), slice)

\* mutant: the weight is one over the number of symbols that trade
PortfolioOfTraded(symbols, slice) ==
    LET traded == InSlice(symbols, slice)
    IN  [i \in 1..Len(traded) |-> <<traded[i], Frac(1, Len(traded))>>]

\* [PortfolioTarget(symbol, 1 / len(self.long_symbols)) for symbol in ... if ...]
Portfolio(symbols, slice) ==
    LET traded == InSlice(symbols, slice)
    IN  [i \in 1..Len(traded) |-> <<traded[i], Frac(1, Len(symbols))>>]

\* 1 / len(self.long_symbols) raises ZeroDivisionError; the division is
\* evaluated once for every symbol that passes the filter of the comprehension
PortfolioRaises(symbols, slice) ==
    Len(InSlice(symbols, slice)) > 0 /\ Len(symbols) = 0

NCAVInitialize ==
    /\ ncav_month = NCAVStartMonth
    /\ ncav_selection_flag = TRUE
    /\ long_symbols = <<>>
    /\ targets = <<>>
    /\ ncav_error = FALSE
    /\ july_ticked = FALSE

----------------------------------------------------------------------------
(* MarketTimingAggregateAccruals: the handlers *)

Init ==
    /\ month = StartMonth
    /\ market_price = 1
    /\ price_moves = 0
    /\ market_monthly_data = <<>>
    /\ market_yearly_data = <<>>
    /\ aggregate_accruals = <<>>
    /\ accrual_data = <<>>
    /\ selection_flag = FALSE
    /\ orders = <<>>
    /\ runtime_error = FALSE
    /\ snap_age = <<>>
    /\ purged = {}
    /\ agg_passes = 0
    /\ rebalances = 0
    /\ NCAVInitialize

\* the runtime updates the price of the market proxy
PriceChange(price) ==
    /\ ~runtime_error
    /\ UNCHANGED ncav
    /\ price_moves < MaxPriceMoves
    /\ price # market_price
    /\ market_price' = price
    /\ price_moves' = price_moves + 1
    /\ UNCHANGED <<month, market_monthly_data, market_yearly_data,
                   aggregate_accruals, accrual_data, selection_flag, orders,
                   runtime_error, snap_age, purged, agg_passes, rebalances>>

\* the runtime doubles the price of the market proxy, in March
PriceDoubles ==
    /\ ~runtime_error
    /\ UNCHANGED ncav
    /\ month = rebalance_month - 1
    /\ 2 * market_price \in ScenarioPrices
    /\ market_price' = 2 * market_price
    /\ UNCHANGED <<month, price_moves, market_monthly_data, market_yearly_data,
                   aggregate_accruals, accrual_data, selection_flag, orders,
                   runtime_error, snap_age, purged, agg_passes, rebalances>>

\* the scheduled MonthStart callback; the calendar moves on by one month
Selection ==
    /\ ~runtime_error
    /\ UNCHANGED ncav
    /\ LET time_month == (month % 12) + 1
           monthly == IF SecuritiesContainsMarket
                      THEN DequeAppend(market_monthly_data, market_price, monthly_maxlen)
                      ELSE market_monthly_data
       IN  /\ month' = time_month
           /\ market_monthly_data' = monthly
           /\ IF time_month = rebalance_month
              THEN /\ selection_flag' = TRUE
                   /\ market_yearly_data' =
                        IF Len(monthly) = monthly_maxlen
                        THEN DequeAppend(market_yearly_data,
                                         <<FInt(market_price), YearlyVariance(monthly)>>,
                                         yearly_maxlen)
                        ELSE market_yearly_data
                   /\ snap_age' = IF agg_passes >= 1
                                  THEN [s \in DOMAIN snap_age |-> CapInc(snap_age[s])]
                                  ELSE snap_age
                   /\ agg_passes' = 0
                   /\ rebalances' = 0
              ELSE UNCHANGED <<selection_flag, market_yearly_data, snap_age,
                               agg_passes, rebalances>>
    /\ orders' = <<>>
    /\ UNCHANGED <<market_price, price_moves, aggregate_accruals, accrual_data,
                   runtime_error, purged>>

\* mutant: removed securities keep their record
RemoveNothing(data, removed) == data

\* del self.accrual_data[symbol] for the removed securities that have an entry
RemoveSecurities(data, removed) == [s \in (DOMAIN data) \ removed |-> data[s]]

OnSecuritiesChanged(removed) ==
    /\ ~runtime_error
    /\ UNCHANGED ncav
    /\ orders' = <<>>
    /\ accrual_data' = RemoveSecurities(accrual_data, removed)
    /\ snap_age' = [s \in DOMAIN accrual_data' |-> snap_age[s]]
    /\ purged' = purged \cup (removed \cap DOMAIN accrual_data)
    /\ UNCHANGED <<month, market_price, price_moves, market_monthly_data,
                   market_yearly_data, aggregate_accruals, selection_flag,
                   runtime_error, agg_passes, rebalances>>

FundamentalSelectionFunction(fundamental) ==
    /\ ~runtime_error
    /\ UNCHANGED ncav
    /\ orders' = <<>>
    /\ IF FlagClear
       THEN UNCHANGED state
       ELSE LET selected == Selected(fundamental)
                loop == AccrualLoop(selected, accrual_data, <<>>)
                accruals_market_cap == loop[2]
                stored == { selected[i].Symbol : i \in 1..Len(selected) }
            IN  /\ accrual_data' = loop[1]
                /\ snap_age' = [s \in DOMAIN loop[1] |->
                                   IF s \in stored THEN 0 ELSE snap_age[s]]
                /\ purged' = purged \ stored
                /\ agg_passes' = CapInc(agg_passes)
                /\ runtime_error' = DivisionByZero(accruals_market_cap)
                /\ aggregate_accruals' =
                        IF DivisionByZero(accruals_market_cap)
                        THEN aggregate_accruals
                        ELSE AppendAggregate(aggregate_accruals, accruals_market_cap)
                /\ UNCHANGED <<month, market_price, price_moves,
                               market_monthly_data, market_yearly_data,
                               selection_flag, rebalances>>

OnData(data) ==
    /\ ~runtime_error
    /\ UNCHANGED ncav
    /\ IF FlagClear
       THEN /\ orders' = <<>>
            /\ UNCHANGED state
       ELSE /\ selection_flag' = FlagAfterOnData
            /\ rebalances' = CapInc(rebalances)
            /\ IF HistoryReady(market_yearly_data, aggregate_accruals)
               THEN LET forecast == Forecast(market_yearly_data, aggregate_accruals)
                        market_weight == MarketWeight(forecast.expected_return,
                                                      forecast.expected_variance)
                        tbills_weight == TbillsWeight(market_weight)
                    IN  IF forecast.raised
                        THEN /\ runtime_error' = TRUE
                             /\ orders' = <<>>
                        ELSE /\ orders' = IF BothInData(data)
                                          THEN <<market_weight, tbills_weight>>
                                          ELSE <<>>
                             /\ UNCHANGED runtime_error
               ELSE /\ orders' = <<>>
                    /\ UNCHANGED runtime_error
            /\ UNCHANGED <<month, market_price, price_moves, market_monthly_data,
                           market_yearly_data, aggregate_accruals, accrual_data,
                           snap_age, purged, agg_passes>>

Next ==
    \/ Selection
    \/ \E removed \in SUBSET Symbols : OnSecuritiesChanged(removed)
    \/ \E fundamental \in FundamentalInputs : FundamentalSelectionFunction(fundamental)
    \/ \E data \in DataSlices : OnData(data)

Spec == Init /\ [][Next]_vars

NextUniverse ==
    \/ Selection
    \/ \E removed \in SUBSET Symbols : OnSecuritiesChanged(removed)
    \/ \E fundamental \in UniverseInputs : FundamentalSelectionFunction(fundamental)
    \/ \E data \in DataSlices : OnData(data)

SpecUniverse == Init /\ [][NextUniverse]_vars

\* market capitalizations of 0, 1 and 2; a removal notification names the
\* whole universe and every data slice holds both instruments
NextCaps ==
    \/ Selection
    \/ OnSecuritiesChanged(Symbols \cup {"C"})
    \/ \E fundamental \in CapInputs : FundamentalSelectionFunction(fundamental)
    \/ OnData({Market, Tbills})

SpecCaps == Init /\ [][NextCaps]_vars

\* accruals and market prices that both vary: the price rises in March, no
\* security is ever removed and every data slice holds both instruments
NextForecast ==
    \/ /\ month = rebalance_month - 1
       /\ \E price \in Prices : price > market_price /\ PriceChange(price)
    \/ Selection
    \/ \E fundamental \in ForecastInputs : FundamentalSelectionFunction(fundamental)
    \/ OnData({Market, Tbills})

SpecForecast == Init /\ [][NextForecast]_vars

\* scenario A: one stock whose statement never changes, so that every
\* aggregate accrual is the same, in a market that doubles from year to year
NextScenarioA ==
    \/ PriceDoubles
    \/ Selection
    \/ FundamentalSelectionFunction(<<StockA1>>)
    \/ OnData({Market, Tbills})

SpecScenarioA == Init /\ [][NextScenarioA]_vars

\* the accrual of one stock for every pair of statements: the state after the
\* pass of the first April has stored a statement of A, and the pass that
\* follows it computes the first accrual
InitAccruals ==
    /\ month = rebalance_month
    /\ market_price = 1
    /\ price_moves = 0
    /\ market_monthly_data = [i \in 1..((rebalance_month - StartMonth) % 12) |-> 1]
    /\ market_yearly_data = <<>>
    /\ aggregate_accruals = <<>>
    /\ \E prior \in StatementSpace : accrual_data = [s \in {"A"} |-> prior]
    /\ selection_flag = TRUE
    /\ orders = <<>>
    /\ runtime_error = FALSE
    /\ snap_age = [s \in {"A"} |-> 0]
    /\ purged = {}
    /\ agg_passes = 1
    /\ rebalances = 0
    /\ NCAVInitialize

NextAccruals ==
    /\ aggregate_accruals = <<>>
    /\ \E current \in StatementSpace :
            FundamentalSelectionFunction(<<Fundamental("A", TRUE, 1, current, 1)>>)

SpecAccruals == InitAccruals /\ [][NextAccruals]_vars

\* a market whose price moves, with no stock ever offered to the aggregator
NextMarket ==
    \/ \E price \in Prices : PriceChange(price)
    \/ Selection
    \/ FundamentalSelectionFunction(<<>>)
    \/ \E data \in DataSlices : OnData(data)

SpecMarket == Init /\ [][NextMarket]_vars

----------------------------------------------------------------------------
(* NetCurrentAssetValueEffect: the handlers *)

\* the scheduled MonthStart callback; the calendar moves on by one month
NCAVSelection ==
    /\ ~ncav_error
    /\ ncav_month' = (ncav_month % 12) + 1
    /\ IF ncav_month' = ncav_rebalance_month
       THEN ncav_selection_flag' = TRUE /\ july_ticked' = TRUE
       ELSE UNCHANGED <<ncav_selection_flag, july_ticked>>
    /\ targets' = <<>>
    /\ UNCHANGED <<long_symbols, ncav_error, accruals_timing>>

FundamentalFunction(fundamental) ==
    /\ ~ncav_error
    /\ targets' = <<>>
    /\ long_symbols' = IF ~ncav_selection_flag
                       THEN long_symbols
                       ELSE LongSymbols(sorted_by_market_cap(fundamental))
    /\ UNCHANGED <<ncav_month, ncav_selection_flag, ncav_error, july_ticked,
                   accruals_timing>>

NCAVOnData(slice) ==
    /\ ~ncav_error
    /\ IF ~ncav_selection_flag
       THEN /\ targets' = <<>>
            /\ UNCHANGED <<ncav_selection_flag, long_symbols, ncav_error,
                           july_ticked>>
       ELSE /\ ncav_selection_flag' = FALSE
            /\ IF PortfolioRaises(long_symbols, slice)
               THEN /\ ncav_error' = TRUE
                    /\ targets' = <<>>
                    /\ UNCHANGED <<long_symbols, july_ticked>>
               ELSE /\ targets' = <<Portfolio(long_symbols, slice)>>
                    /\ long_symbols' = <<>>
                    /\ july_ticked' = FALSE
                    /\ UNCHANGED ncav_error
    /\ UNCHANGED <<ncav_month, accruals_timing>>

NextNCAV ==
    \/ NCAVSelection
    \/ \E fundamental \in NCAVInputs : FundamentalFunction(fundamental)
    \/ \E slice \in NCAVSlices : NCAVOnData(slice)

SpecNCAV == Init /\ [][NextNCAV]_vars

----------------------------------------------------------------------------
(* Steps of the handlers, as the properties below name them *)

\* the April tick: Selection sets the pending flag
FlagSetStep == month # rebalance_month /\ month' = rebalance_month

\* an OnData call that passes the flag guard and runs its body
OnDataBodyStep == selection_flag /\ ~selection_flag'

Full(series) == Len(series) = yearly_maxlen

\* a monthly tick: Selection has run
TickStep == month' # month

----------------------------------------------------------------------------
(* Claims *)

\* C1: in every reachable state the aggregate-accrual series and the yearly
\* market series have the same length.
C1_SeriesEqualLength == Len(aggregate_accruals) = Len(market_yearly_data)

\* C2: an allocation computed from a forecast with expected_variance <= 0 is
\* market_weight = 0 and tbill_weight = 1.
C2_DegenerateForecastFallsBack ==
    (/\ orders # <<>>
     /\ FLeq(Forecast(market_yearly_data, aggregate_accruals).expected_variance,
             FInt(0)))
        => orders = <<FInt(0), FInt(1)>>

\* C3: from one setting of the pending flag to the next, exactly one
\* aggregation pass has run.
\* (stated for the cycles in which the runtime did deliver its events: an
\* aggregation pass or the body of OnData has run)
C3_ExactlyOnePassPerYear ==
    [][/\ agg_passes' <= 1
       /\ (FlagSetStep /\ rebalances = 1) => agg_passes = 1]_vars

\* C4: the body of OnData runs only after the aggregator has run in the same
\* cycle; a data event that comes first neither forecasts nor clears the flag.
C4_ForecastAfterAggregation ==
    [][OnDataBodyStep => agg_passes >= 1]_vars

\* C5: between two consecutive settings of the pending flag at most one OnData
\* call passes the flag guard.
C5_AtMostOneRebalancePerCycle == rebalances <= 1

C5_Witness == rebalances = 1 /\ orders # <<>>

\* C6: SetHoldings is called only when both series hold year_period + 1
\* entries; when either is shorter the body of OnData issues no order and
\* changes neither series.
C6_OrdersOnlyWithFullHistory ==
    [][/\ orders' # <<>> =>
            Full(aggregate_accruals) /\ Full(market_yearly_data)
       /\ (OnDataBodyStep /\ ~(Full(aggregate_accruals) /\ Full(market_yearly_data)))
            => /\ orders' = <<>>
               /\ UNCHANGED <<aggregate_accruals, market_yearly_data>>]_vars

C6_Witness ==
    orders # <<>> /\ Full(aggregate_accruals) /\ Full(market_yearly_data)

\* C7: every allocation satisfies |market_weight| <= leverage_cap,
\* 0 <= tbill_weight <= 1 and tbill_weight = max(0, 1 - |market_weight|).
C7_AllocationBounds ==
    orders # <<>> =>
        /\ FLeq(FAbs(orders[1]), FInt(leverage_cap))
        /\ FLeq(FInt(0), orders[2]) /\ FLeq(orders[2], FInt(1))
        /\ orders[2] = PyMax(FInt(0), FSub(FInt(1), FAbs(orders[1])))

\* the symbols the pass retains, and those that produce an accrual in it
Retained(fundamental) ==
    { Selected(fundamental)[i].Symbol : i \in 1..Len(Selected(fundamental)) }

Contributors(fundamental) ==
    LET accruals_market_cap ==
            AccrualLoop(Selected(fundamental), accrual_data, <<>>)[2]
    IN  { accruals_market_cap[i][1] : i \in 1..Len(accruals_market_cap) }

\* C8: every accrual is the delta against the snapshot of the immediately
\* preceding annual period: a stock that was not retained for a period has
\* lost its record, so no accrual is computed against an older snapshot.
\* (stated for the first pass of a cycle, where no snapshot of the same
\* period exists yet)
C8_AccrualAgainstPreviousPeriod ==
    [][\A fundamental \in UniverseInputs :
          (/\ selection_flag
           /\ agg_passes = 0
           /\ FundamentalSelectionFunction(fundamental))
              => \A s \in Contributors(fundamental) : snap_age[s] = 1]_vars

\* C9: a stock the aggregator sees for the first time produces no accrual in
\* that pass and has a record afterwards; a removal notification deletes the
\* record, so a later selection is a cold start again.
C9_ColdStartAndPurge ==
    [][/\ \A fundamental \in UniverseInputs :
            (selection_flag /\ FundamentalSelectionFunction(fundamental))
                => /\ \A s \in Retained(fundamental) \ DOMAIN accrual_data :
                        /\ s \notin Contributors(fundamental)
                        /\ s \in DOMAIN accrual_data'
                   /\ Retained(fundamental) \cap DOMAIN accrual_data = {}
                        => UNCHANGED aggregate_accruals
       /\ purged' \cap DOMAIN accrual_data' = {}]_vars

\* an aggregate has been appended, a notification has purged B's record, and
\* A's record is the statement a pass has just stored
C9_Witness ==
    /\ purged = {"B"}
    /\ DOMAIN accrual_data = {"A"}
    /\ snap_age["A"] = 0
    /\ Len(aggregate_accruals) = 1

\* C10: a pass in which no stock produces an accrual leaves the
\* aggregate-accrual series unchanged.
C10_NoContributorNoAppend ==
    [][\A fundamental \in FundamentalInputs :
          (/\ selection_flag
           /\ FundamentalSelectionFunction(fundamental)
           /\ Contributors(fundamental) = {})
              => UNCHANGED aggregate_accruals]_vars

C10_Witness ==
    /\ agg_passes = 1
    /\ DOMAIN accrual_data # {}
    /\ aggregate_accruals = <<>>

\* C11: a pass in which a stock produced an accrual but the total market
\* capitalization of the contributing stocks is zero appends nothing and
\* divides by nothing: the algorithm goes on.
C11_ZeroCapIsNoUpdate ==
    [][\A fundamental \in CapInputs :
          (/\ selection_flag
           /\ FundamentalSelectionFunction(fundamental)
           /\ Contributors(fundamental) # {}
           /\ TotalMarketCap(AccrualLoop(Selected(fundamental),
                                         accrual_data, <<>>)[2]) = 0)
              => /\ ~runtime_error'
                 /\ UNCHANGED aggregate_accruals]_vars

\* C12: the April tick leaves the yearly market series unchanged until the
\* monthly window holds 12 prices; the window never holds more than 12
\* prices, and a price recorded into a full window evicts the oldest one and
\* keeps the others in arrival order.
C12_MonthlyWindow ==
    [][/\ Len(market_monthly_data') <= monthly_maxlen
       /\ TickStep =>
            /\ Len(market_monthly_data') < monthly_maxlen
                    => UNCHANGED market_yearly_data
            /\ (FlagSetStep /\ Len(market_monthly_data') = monthly_maxlen)
                    => /\ Len(market_yearly_data') >= 1
                       /\ market_yearly_data'[Len(market_yearly_data')][1]
                            = FInt(market_price)
            /\ market_monthly_data' =
                    IF Len(market_monthly_data) = monthly_maxlen
                    THEN Append(Tail(market_monthly_data), market_price)
                    ELSE Append(market_monthly_data, market_price)]_vars

\* two yearly snapshots have been taken, so the window has evicted prices,
\* and it holds prices from before and after a price change
C12_Witness ==
    /\ Len(market_yearly_data) >= 2
    /\ Len(market_monthly_data) = monthly_maxlen
    /\ market_monthly_data[1] # market_monthly_data[monthly_maxlen]

\* accruals_market_cap as the pass over the list computes it
PassAccruals(fundamental) == AccrualLoop(Selected(fundamental), accrual_data, <<>>)[2]

\* a call of FundamentalSelectionFunction that passes the flag guard
PassStep(fundamental) ==
    /\ selection_flag
    /\ UNCHANGED <<month, selection_flag, rebalances>>
    /\ FundamentalSelectionFunction(fundamental)

C14_RegressionAlignment ==
    [][(OnDataBodyStep /\ Full(aggregate_accruals) /\ Full(market_yearly_data))
          => LET N == year_period
                 x == [i \in 1..(N - 1) |-> aggregate_accruals[i]]
                 returns == [i \in 1..(N - 1) |->
                                FDiv(FSub(market_yearly_data[i + 2][1],
                                          market_yearly_data[i + 1][1]),
                                     market_yearly_data[i + 1][1])]
                 variances == [i \in 1..(N - 1) |-> market_yearly_data[i + 2][2]]
                 query == aggregate_accruals[N + 1]
                 r == linregress(x, returns)
                 v == linregress(x, variances)
                 expected_return == FAdd(r.intercept, FMul(r.slope, query))
                 expected_variance == FAdd(v.intercept, FMul(v.slope, query))
                 market_weight == MarketWeight(expected_return, expected_variance)
             IN  /\ RegrAccruals(aggregate_accruals) = x
                 /\ MarketReturns(market_yearly_data) = returns
                 /\ YearlyVariances(market_yearly_data) = variances
                 /\ N + 1 \notin DOMAIN RegrAccruals(aggregate_accruals)
                 /\ IF r.raised \/ v.raised
                    THEN runtime_error' /\ orders' = <<>>
                    ELSE /\ ~runtime_error'
                         /\ orders' \in {<<>>, <<market_weight,
                                                 TbillsWeight(market_weight)>>}]_vars

\* an allocation from regressions whose x values, returns and variances all vary
C14_Witness ==
    /\ orders # <<>>
    /\ Full(aggregate_accruals) /\ Full(market_yearly_data)
    /\ aggregate_accruals[1] # aggregate_accruals[2]
    /\ \E i \in 2..year_period :
            /\ market_yearly_data[i][1] # market_yearly_data[i + 1][1]
            /\ market_yearly_data[i][2] # market_yearly_data[i + 1][2]

\* both histories are full, the aggregate accruals are identical, the annual
\* returns are identical and not zero, and the yearly variances are identical
ScenarioA ==
    /\ Full(aggregate_accruals) /\ Full(market_yearly_data)
    /\ \A i \in DOMAIN aggregate_accruals : aggregate_accruals[i] = aggregate_accruals[1]
    /\ LET returns == SimpleReturns([i \in DOMAIN market_yearly_data |->
                                        market_yearly_data[i][1]])
       IN  /\ \A i \in DOMAIN returns : returns[i] = returns[1]
           /\ returns[1] # FInt(0)
    /\ \A i \in DOMAIN market_yearly_data :
            market_yearly_data[i][2] = market_yearly_data[1][2]

\* C15: scenario A.  With identical accruals and identical non-zero returns
\* the forecast is defined and finite: expected_return is the constant
\* return, expected_variance the constant variance, and the emitted
\* market_weight is return / (variance * gamma) clamped to the cap.
C15_ScenarioAForecast ==
    [][(OnDataBodyStep /\ ScenarioA)
          => LET constant_return ==
                    FDiv(FSub(market_yearly_data[2][1], market_yearly_data[1][1]),
                         market_yearly_data[1][1])
                 constant_variance == market_yearly_data[1][2]
                 market_weight == MarketWeight(constant_return, constant_variance)
             IN  /\ ~runtime_error'
                 /\ orders' = <<market_weight, TbillsWeight(market_weight)>>]_vars

\* C16: CalculateAccruals(current, prior) is (dCurrentAssets - dCash) -
\* (dCurrentLiabilities - dCurrentDebt - dIncomeTaxPayable) - current
\* depreciation, every delta current minus prior; the accrual of a statement
\* against itself is minus its depreciation; TotalAssets has no influence.
C16_AccrualFormula ==
    [][aggregate_accruals' # aggregate_accruals
          => LET current == accrual_data'["A"]
                 prior == accrual_data["A"]
                 accrual == aggregate_accruals'[Len(aggregate_accruals')]
             IN  /\ accrual =
                        FInt((current.CurrentAssets - prior.CurrentAssets)
                             - (current.CashAndCashEquivalents
                                    - prior.CashAndCashEquivalents)
                             - (current.CurrentLiabilities - prior.CurrentLiabilities)
                             + (current.CurrentDebt - prior.CurrentDebt)
                             + (current.IncomeTaxPayable - prior.IncomeTaxPayable)
                             - current.DepreciationAndAmortization)
                 /\ accrual = FInt(CalculateAccruals(current, prior))
                 /\ current = prior
                        => accrual = FInt(-current.DepreciationAndAmortization)
                 /\ \A a, b \in FieldValues :
                        CalculateAccruals([current EXCEPT !.TotalAssets = a],
                                          [prior EXCEPT !.TotalAssets = b]) =
                            CalculateAccruals(current, prior)]_vars

\* the largest accrual of the statement space: the statements differ in every
\* field that enters the formula
C16_Witness ==
    /\ aggregate_accruals = <<FInt(5)>>
    /\ accrual_data["A"].TotalAssets = 1
    /\ accrual_data["A"].IncomeTaxPayable = 1

\* C17: the pending flag is cleared once per cycle, by the first OnData body
\* after it was set, and every OnData body clears it; an OnData call and a FundamentalSelectionFunction call
\* made while the flag is clear leave the flag, the accrual records, the
\* monthly window and both yearly series unchanged and emit no weights.
C17_ReentryIsNoOp ==
    [][/\ (selection_flag /\ ~selection_flag') => rebalances = 0 /\ rebalances' = 1
       /\ (month' = month /\ rebalances' # rebalances)
            => selection_flag /\ ~selection_flag'
       /\ ~selection_flag =>
            /\ \A data \in DataSlices :
                 OnData(data)
                    => /\ orders' = <<>>
                       /\ UNCHANGED <<selection_flag, accrual_data,
                                      market_monthly_data, market_yearly_data,
                                      aggregate_accruals>>
            /\ \A fundamental \in FundamentalInputs :
                 FundamentalSelectionFunction(fundamental)
                    => /\ orders' = <<>>
                       /\ UNCHANGED <<selection_flag, accrual_data,
                                      market_monthly_data, market_yearly_data,
                                      aggregate_accruals>>]_vars

\* the flag of the cycle has been cleared after an aggregation pass, with a
\* stock on record and full histories: every further call is a re-entry
C17_Witness ==
    /\ ~selection_flag
    /\ rebalances = 1
    /\ agg_passes >= 1
    /\ DOMAIN accrual_data # {}
    /\ Full(aggregate_accruals) /\ Full(market_yearly_data)
    /\ orders = <<>>

\* C19: an OnData call with the flag set and both histories full whose slice
\* lacks the market or the T-bill instrument emits no weight, leaves both
\* series unchanged and clears the flag all the same; weights are emitted
\* only by the first OnData body after the flag was set, so the rebalance is
\* not retried before the next April tick.
C19_MissingInstrumentSkips ==
    [][/\ \A data \in DataSlices :
            (/\ selection_flag
             /\ Full(aggregate_accruals) /\ Full(market_yearly_data)
             /\ ~(Market \in data /\ Tbills \in data)
             /\ OnData(data))
                => /\ orders' = <<>>
                   /\ UNCHANGED <<aggregate_accruals, market_yearly_data>>
                   /\ ~selection_flag'
                   /\ rebalances' = 1
       /\ orders' # <<>> => selection_flag /\ rebalances = 0]_vars

\* the flag of the cycle is spent and no weight is out, although both
\* histories are full and the forecast is defined
C19_Witness ==
    /\ ~selection_flag
    /\ rebalances = 1
    /\ orders = <<>>
    /\ ~runtime_error
    /\ Full(aggregate_accruals) /\ Full(market_yearly_data)
    /\ ~Forecast(market_yearly_data, aggregate_accruals).raised

\* C18: in the Net Current Asset Value strategy every OnData call that
\* reaches SetHoldings is preceded, since the previous rebalance or since
\* start-up, by a monthly tick of the rebalance month (July): nothing is
\* rebalanced or liquidated before the first July tick.
C18_RebalanceOnlyAfterJuly ==
    [][targets' # <<>> => july_ticked]_vars

\* C20: a rebalance of the Net Current Asset Value strategy gives every
\* emitted symbol the weight 1 / |long_symbols|, emits exactly the symbols of
\* long_symbols that are in the slice (the weights sum to at most 1), divides
\* by nothing when long_symbols is empty, and leaves long_symbols empty and
\* the flag clear; with long_symbols empty the rebalance is the empty,
\* liquidating one.
C20_EqualWeights ==
    [][\A slice \in NCAVSlices :
          (ncav_selection_flag /\ NCAVOnData(slice))
              => /\ ~ncav_error'
                 /\ targets' # <<>>
                 /\ LET portfolio == targets'[1]
                        n == Len(long_symbols)
                    IN  /\ \A i \in DOMAIN portfolio :
                              /\ portfolio[i][2] = Frac(1, n)
                              /\ portfolio[i][1] \in slice
                              /\ \E j \in DOMAIN long_symbols :
                                    long_symbols[j] = portfolio[i][1]
                        /\ \A j \in DOMAIN long_symbols :
                              long_symbols[j] \in slice
                                => \E i \in DOMAIN portfolio :
                                      portfolio[i][1] = long_symbols[j]
                        /\ FLeq(FSum([i \in DOMAIN portfolio |-> portfolio[i][2]]),
                                FInt(1))
                        /\ n = 0 => portfolio = <<>>
                 /\ long_symbols' = <<>>
                 /\ ~ncav_selection_flag']_vars

\* a rebalance from two long symbols of which one was in the slice
C20_Witness ==
    /\ targets # <<>>
    /\ Len(targets[1]) = 1
    /\ targets[1][1][2] = Frac(1, 2)
    /\ long_symbols = <<>>
    /\ ~ncav_selection_flag

====
